---------------------------- MODULE Spec2Model ----------------------------
(***************************************************************************)
(* WordTreasure similarity service: the request handler of main.py, the    *)
(* scorers and score fusion of models/similarity.py and the hint selector  *)
(* of models/hint.py.                                                      *)
(*                                                                         *)
(* Numbers.  Every Python float is modelled as an exact rational <<n, d>>  *)
(* in lowest terms with d > 0; round(x, k) is round-half-to-even on the    *)
(* exact value.  Binary floating-point error is not modelled.              *)
(*                                                                         *)
(* Text.  A text is a sequence of characters; a character is one of the    *)
(* strings of Chars.  "A" is the upper case of "a", " " is whitespace,     *)
(* "!" is punctuation, "ga" and "gan" stand for the Hangul syllables       *)
(* U+AC00 and U+AC04, whose jamo are "j_g" "j_a" (and "j_n").              *)
(*                                                                         *)
(* Hints.  A hint string is a sequence of tokens; concatenation is \o.     *)
(***************************************************************************)
EXTENDS Integers, Sequences, FiniteSets, TLC

VARIABLES
    \* ---- request handler (main.py calculate_similarity) ----
    pc,                      \* position of the handler
    templates,               \* config.NLI_TEMPLATES as passed to the calculator
    contradiction_templates, \* config.CONTRADICTION_TEMPLATES
    relationship_templates,  \* config.RELATIONSHIP_ANALYSIS_TEMPLATES (ordered)
    config_weights,          \* config.WEIGHTS as the service loaded it
    user_input, answer,      \* the request
    semantic_score,          \* similarity.py:266
    entailment_scores,       \* similarity.py:95
    relation_score,          \* similarity.py:112
    contradiction_scores,    \* similarity.py:115
    nli_results,             \* similarity.py:101 and 119: each nli_result returned so far
    idx,                     \* templates already classified by the running loop
    result,                  \* value returned by calculate_combined_similarity
    relationship_scores,     \* similarity.py:147, insertion-ordered dict
    relationship,            \* <<type, confidence>> returned by analyze_relationship_type
    response,                \* what the handler answers
    calls,                   \* capability calls made for the current request, in order
    \* ---- score fusion with mocked scorers ----
    fz,
    \* ---- hint selector as a function ----
    hz,
    \* ---- formative scorer as a function ----
    lz

vars == <<pc, templates, contradiction_templates, relationship_templates,
          config_weights,
          user_input, answer, semantic_score, entailment_scores, relation_score,
          contradiction_scores, nli_results, idx, result, relationship_scores,
          relationship, response, calls, fz, hz, lz>>

handlerVars == <<pc, templates, contradiction_templates, relationship_templates,
                 config_weights, user_input, answer, semantic_score, entailment_scores,
                 relation_score, contradiction_scores, nli_results, idx, result,
                 relationship_scores, relationship, response, calls>>

-----------------------------------------------------------------------------
(* Exact rationals *)

Abs(n) == IF n < 0 THEN -n ELSE n

RECURSIVE GCD(_, _)
GCD(a, b) == IF b = 0 THEN a ELSE GCD(b, a % b)

Rat(n, d) == LET g == GCD(Abs(n), d) IN <<n \div g, d \div g>>

RInt(n) == <<n, 1>>

RAdd(x, y) == Rat(x[1] * y[2] + y[1] * x[2], x[2] * y[2])

RSub(x, y) == Rat(x[1] * y[2] - y[1] * x[2], x[2] * y[2])

RMul(x, y) == Rat(x[1] * y[1], x[2] * y[2])

RDivInt(x, n) == Rat(x[1], x[2] * n)

RLe(x, y) == x[1] * y[2] <= y[1] * x[2]

RLt(x, y) == x[1] * y[2] < y[1] * x[2]

RMax(x, y) == IF RLt(x, y) THEN y ELSE x

RMin(x, y) == IF RLt(y, x) THEN y ELSE x

RECURSIVE Pow10(_)
Pow10(k) == IF k = 0 THEN 1 ELSE 10 * Pow10(k - 1)

\* Python round(x, ndigits): to the nearest multiple of 10^-ndigits, ties to even.
Round(x, ndigits) ==
    LET m == x[1] * Pow10(ndigits)
        q == m \div x[2]
        r == m % x[2]
        n == IF 2 * r < x[2] THEN q
             ELSE IF 2 * r > x[2] THEN q + 1
             ELSE IF q % 2 = 0 THEN q ELSE q + 1
    IN  Rat(n, Pow10(ndigits))

-----------------------------------------------------------------------------
(* Text normalisation: similarity.py normalize_text *)

Chars == {"a", "b", "A", " ", "!", "ga", "gan"}

Lower(c) == IF c = "A" THEN "a" ELSE c

IsSpace(c) == c = " "

\* \w (Unicode word characters, Hangul syllables included) or the range 가-힣
IsWord(c) == c \in {"a", "b", "A", "ga", "gan"}

RECURSIVE MapLower(_)
MapLower(s) == IF s = <<>> THEN <<>> ELSE <<Lower(Head(s))>> \o MapLower(Tail(s))

RECURSIVE DropSpace(_)
DropSpace(s) ==
    IF s = <<>> THEN <<>>
    ELSE IF IsSpace(Head(s)) THEN DropSpace(Tail(s))
    ELSE <<Head(s)>> \o DropSpace(Tail(s))

RECURSIVE DropSpecial(_)
DropSpecial(s) ==
    IF s = <<>> THEN <<>>
    ELSE IF IsWord(Head(s)) \/ IsSpace(Head(s)) THEN <<Head(s)>> \o DropSpecial(Tail(s))
    ELSE DropSpecial(Tail(s))

\* variant: the lower-casing step left out
normalize_text_keeps_case(text) == DropSpecial(DropSpace(text))

normalize_text(text) == DropSpecial(DropSpace(MapLower(text)))

-----------------------------------------------------------------------------
(* Formative similarity: jamo decomposition and edit distance *)

h2jChar(c) ==
    IF c = "ga" THEN <<"j_g", "j_a">>
    ELSE IF c = "gan" THEN <<"j_g", "j_a", "j_n">>
    ELSE <<c>>

RECURSIVE h2j(_)
h2j(s) == IF s = <<>> THEN <<>> ELSE h2jChar(Head(s)) \o h2j(Tail(s))

\* variant: the substitution candidate left out of the minimum
Min3WithoutSubstitution(a, b, c) == IF a <= b THEN a ELSE b

\* min(insertions, deletions, substitutions), similarity.py:215
Min3(a, b, c) == IF a <= b /\ a <= c THEN a ELSE IF b <= c THEN b ELSE c

\* the inner loop over s2 (lines 210-215): current_row grows from [i + 1]
RECURSIVE LevInner(_, _, _, _, _)
LevInner(c1, s2, previous_row, current_row, j) ==
    IF j > Len(s2) THEN current_row
    ELSE LET insertions    == previous_row[j + 1] + 1
             deletions     == current_row[j] + 1
             substitutions == previous_row[j] + (IF c1 # s2[j] THEN 1 ELSE 0)
         IN  LevInner(c1, s2, previous_row,
                      Append(current_row, Min3(insertions, deletions, substitutions)),
                      j + 1)

\* the outer loop over s1 (lines 208-216); i is the 1-based position in s1
RECURSIVE LevOuter(_, _, _, _)
LevOuter(s1, s2, previous_row, i) ==
    IF i > Len(s1) THEN previous_row
    ELSE LevOuter(s1, s2, LevInner(s1[i], s2, previous_row, <<i>>, 1), i + 1)

RECURSIVE levenshtein_distance(_, _)
levenshtein_distance(s1, s2) ==
    IF Len(s1) < Len(s2) THEN levenshtein_distance(s2, s1)
    ELSE IF Len(s2) = 0 THEN Len(s1)
    ELSE LET row == LevOuter(s1, s2, [k \in 1..(Len(s2) + 1) |-> k - 1], 1)
         IN  row[Len(row)]

calculate_formative_similarity(input_text, answer_text) ==
    LET input_jamo  == h2j(input_text)
        answer_jamo == h2j(answer_text)
        distance    == levenshtein_distance(input_jamo, answer_jamo)
        max_len     == IF Len(input_jamo) >= Len(answer_jamo)
                       THEN Len(input_jamo) ELSE Len(answer_jamo)
    IN  IF max_len = 0 THEN RInt(1)
        ELSE RMax(RInt(0), RSub(RInt(1), Rat(distance, max_len)))

-----------------------------------------------------------------------------
(* Score fusion: similarity.py calculate_combined_similarity *)

WEIGHTS == [semantic   |-> Rat(50, 100),
            relational |-> Rat(35, 100),
            formative  |-> Rat(15, 100)]

\* lines 255-263: the exact-match result
ExactMatchResult ==
    [similarity_score |-> RInt(100),
     breakdown |-> [semantic |-> RInt(1), relational |-> RInt(1),
                    formative |-> RInt(1), contradiction |-> RInt(0)]]

\* lines 272-277
WeightedScore(semantic, relational, formative, weights) ==
    RAdd(RAdd(RMul(semantic, weights.semantic),
              RMul(relational, weights.relational)),
         RMul(formative, weights.formative))

\* variant: the penalty taken with the relational weight instead of 0.15
ApplyPenaltyWrongCoefficient(weighted_score, contradiction) ==
    RSub(weighted_score, RMul(contradiction, Rat(35, 100)))

\* variant: the penalty added instead of subtracted
ApplyPenaltyAdded(weighted_score, contradiction) ==
    RAdd(weighted_score, RMul(contradiction, Rat(15, 100)))

\* line 280
ApplyPenalty(weighted_score, contradiction) ==
    RSub(weighted_score, RMul(contradiction, Rat(15, 100)))

\* variant: clipped from above only
ClipUpperOnly(weighted_score) == RMin(RInt(1), weighted_score)

\* line 283
Clip(weighted_score) == RMax(RInt(0), RMin(RInt(1), weighted_score))

\* lines 272-296
Fuse(semantic, relational, formative, contradiction, weights) ==
    LET weighted_score == Clip(ApplyPenalty(
                              WeightedScore(semantic, relational, formative, weights),
                              contradiction))
        final_score == RMul(weighted_score, RInt(100))
    IN  [similarity_score |-> Round(final_score, 2),
         breakdown |-> [semantic      |-> Round(semantic, 4),
                        relational    |-> Round(relational, 4),
                        formative     |-> Round(formative, 4),
                        contradiction |-> Round(contradiction, 4)]]

-----------------------------------------------------------------------------
(* Configuration: config.py *)

\* config.py:31-36, one name per template, in list order
NLI_TEMPLATES == <<"is_related_to", "same_context", "appears_in_situation", "similar_meaning">>

\* config.py:39-42
CONTRADICTION_TEMPLATES == <<"opposite_meaning", "mutually_conflicting">>

\* config.py:60-71: the dict in insertion order, as <<type, template>> pairs
RELATIONSHIP_ANALYSIS_TEMPLATES ==
    << <<"situation",     "occurs_in_situation">>,
       <<"emotion_cause", "can_cause">>,
       <<"attribute",     "has_property_of">>,
       <<"place",         "happens_at">>,
       <<"person",        "appears_between">>,
       <<"similar_genre", "similar_kind">>,
       <<"opposite",      "is_opposite_of">>,
       <<"part_whole",    "is_part_of">>,
       <<"time",          "happens_when">>,
       <<"result",        "results_from">> >>

RelationTypes == {RELATIONSHIP_ANALYSIS_TEMPLATES[i][1] :
                    i \in 1..Len(RELATIONSHIP_ANALYSIS_TEMPLATES)}

\* config.py:45-52
HINT_THRESHOLDS ==
    [t \in {95, 80, 60, 40, 20, 0} |->
        CASE t = 95 -> <<"almost_correct">>
          [] t = 80 -> <<"very_close">>
          [] t = 60 -> <<"similar_direction">>
          [] t = 40 -> <<"related_but_inexact">>
          [] t = 20 -> <<"direction_differs">>
          [] t = 0  -> <<"completely_different">>]

\* config.py:74-125: every relation type has a high, a medium and a low template,
\* each the {input} placeholder followed by fixed text
CONTEXTUAL_HINT_TEMPLATES ==
    [ty \in RelationTypes |->
        [lv \in {"high", "medium", "low"} |-> <<"{input}", "_ctx_" \o ty \o "_" \o lv>>]]

\* config.py:128-133
DETAIL_HINT_SUFFIX ==
    [k \in {"semantic_high", "relational_high", "formative_high", "contradiction"} |->
        <<"cfg_" \o k>>]

-----------------------------------------------------------------------------
(* Python helpers *)

\* dict.get(key, default)
Get(dict, key, default) == IF key \in DOMAIN dict THEN dict[key] ELSE default

RECURSIVE RSum(_)
RSum(xs) == IF xs = <<>> THEN RInt(0) ELSE RAdd(Head(xs), RSum(Tail(xs)))

\* max(list) of a non-empty list of numbers
RECURSIVE RMaxOf(_)
RMaxOf(xs) == IF Len(xs) = 1 THEN xs[1] ELSE RMax(xs[1], RMaxOf(Tail(xs)))

\* variant: a later item of equal value replaces the best so far
RECURSIVE MaxByValueLastWins(_, _)
MaxByValueLastWins(items, best) ==
    IF items = <<>> THEN best
    ELSE MaxByValueLastWins(Tail(items),
                            IF RLe(best[2], Head(items)[2]) THEN Head(items) ELSE best)

\* max(items, key=lambda x: x[1]): the first item whose value no other exceeds
RECURSIVE MaxByValue(_, _)
MaxByValue(items, best) ==
    IF items = <<>> THEN best
    ELSE MaxByValue(Tail(items),
                    IF RLt(best[2], Head(items)[2]) THEN Head(items) ELSE best)

\* sorted(keys, reverse=True)
RECURSIVE SortedDesc(_)
SortedDesc(S) ==
    IF S = {} THEN <<>>
    ELSE LET m == CHOOSE x \in S : \A y \in S : y <= x
         IN  <<m>> \o SortedDesc(S \ {m})

-----------------------------------------------------------------------------
(* Hint selection: hint.py HintGenerator.  self is the record of the three   *)
(* tables given to the constructor; None is the string "None".              *)

\* Python truthiness of a relationship_type argument
IsFalsy(v) == v \in {"None", ""}

\* str.replace(old, new) on a token sequence; new is a text
RECURSIVE Replace(_, _, _)
Replace(s, old, new) ==
    IF s = <<>> THEN <<>>
    ELSE (IF Head(s) = old THEN new ELSE <<Head(s)>>) \o Replace(Tail(s), old, new)

\* variant: 'high' on either condition ("and" written as "or" at line 114)
HintLevelHighOnEither(similarity_score, relationship_confidence) ==
    IF RLe(Rat(7, 10), relationship_confidence) \/ RLe(RInt(50), similarity_score)
    THEN "high"
    ELSE IF RLe(Rat(5, 10), relationship_confidence) \/ RLe(RInt(30), similarity_score)
    THEN "medium"
    ELSE "low"

\* lines 113-119
HintLevel(similarity_score, relationship_confidence) ==
    IF RLe(Rat(7, 10), relationship_confidence) /\ RLe(RInt(50), similarity_score)
    THEN "high"
    ELSE IF RLe(Rat(5, 10), relationship_confidence) \/ RLe(RInt(30), similarity_score)
    THEN "medium"
    ELSE "low"

\* lines 100-129
generate_contextual_hint(self, input, similarity_score, relationship_type, relationship_confidence) ==
    IF IsFalsy(relationship_type) \/ RLt(relationship_confidence, Rat(3, 10)) THEN <<>>
    ELSE IF RLt(similarity_score, RInt(15)) THEN <<>>
    ELSE LET tmpls == Get(self.contextual_templates, relationship_type, <<>>)
         IN  IF DOMAIN tmpls = {} THEN <<>>
             ELSE LET hint_level    == HintLevel(similarity_score, relationship_confidence)
                      hint_template == Get(tmpls, hint_level, Get(tmpls, "medium", <<>>))
                  IN  IF hint_template = <<>> THEN <<>>
                      ELSE Replace(hint_template, "{input}", input)

\* lines 133-137
RECURSIVE BaseHintScan(_, _, _)
BaseHintScan(self, thresholds, score) ==
    IF thresholds = <<>> THEN self.hint_thresholds[0]
    ELSE IF RLe(RInt(Head(thresholds)), score) THEN self.hint_thresholds[Head(thresholds)]
    ELSE BaseHintScan(self, Tail(thresholds), score)

\* variant: the thresholds scanned in ascending order (reverse=True left out)
RECURSIVE Reverse(_)
Reverse(q) == IF q = <<>> THEN <<>> ELSE Append(Reverse(Tail(q)), Head(q))

get_base_hint_ascending(self, score) ==
    BaseHintScan(self, Reverse(SortedDesc(DOMAIN self.hint_thresholds)), score)

get_base_hint(self, score) ==
    BaseHintScan(self, SortedDesc(DOMAIN self.hint_thresholds), score)

\* variant: among equal greatest signals the last one named
MaxComponentLastWins(semantic, relational, formative) ==
    MaxByValueLastWins(<< <<"relational", relational>>, <<"formative", formative>> >>,
                       <<"semantic", semantic>>)[1]

\* lines 155-158: max over [semantic, relational, formative] by value, first wins
MaxComponent(semantic, relational, formative) ==
    MaxByValue(<< <<"relational", relational>>, <<"formative", formative>> >>,
               <<"semantic", semantic>>)[1]

\* variant: the low-score return (lines 151-152) placed before the contradiction
\* check (lines 147-148)
get_detail_hint_low_score_first(self, breakdown, score) ==
    LET semantic      == Get(breakdown, "semantic", RInt(0))
        relational    == Get(breakdown, "relational", RInt(0))
        formative     == Get(breakdown, "formative", RInt(0))
        contradiction == Get(breakdown, "contradiction", RInt(0))
        component_name == MaxByValue(<< <<"relational", relational>>,
                                        <<"formative", formative>> >>,
                                     <<"semantic", semantic>>)[1]
    IN  IF RLt(score, RInt(20)) THEN <<>>
        ELSE IF RLt(Rat(6, 10), contradiction) THEN <<"but_not_the_opposite_meaning">>
        ELSE IF component_name = "semantic" /\ RLt(Rat(6, 10), semantic)
        THEN (IF RLt(relational, Rat(3, 10))
              THEN Get(self.detail_suffixes, "semantic_high", <<"semantically_close">>)
              ELSE <<>>)
        ELSE IF component_name = "relational" /\ RLt(Rat(6, 10), relational)
        THEN (IF RLt(semantic, Rat(3, 10))
              THEN Get(self.detail_suffixes, "relational_high", <<"context_matches">>)
              ELSE <<>>)
        ELSE IF component_name = "formative" /\ RLt(Rat(7, 10), formative)
        THEN Get(self.detail_suffixes, "formative_high", <<"spelling_very_similar">>)
        ELSE <<>>

\* lines 141-176
get_detail_hint(self, breakdown, score) ==
    LET semantic      == Get(breakdown, "semantic", RInt(0))
        relational    == Get(breakdown, "relational", RInt(0))
        formative     == Get(breakdown, "formative", RInt(0))
        contradiction == Get(breakdown, "contradiction", RInt(0))
        component_name == MaxComponent(semantic, relational, formative)
    IN  IF RLt(Rat(6, 10), contradiction) THEN <<"but_not_the_opposite_meaning">>
        ELSE IF RLt(score, RInt(20)) THEN <<>>
        ELSE IF component_name = "semantic" /\ RLt(Rat(6, 10), semantic)
        THEN (IF RLt(relational, Rat(3, 10))
              THEN Get(self.detail_suffixes, "semantic_high", <<"semantically_close">>)
              ELSE <<>>)
        ELSE IF component_name = "relational" /\ RLt(Rat(6, 10), relational)
        THEN (IF RLt(semantic, Rat(3, 10))
              THEN Get(self.detail_suffixes, "relational_high", <<"context_matches">>)
              ELSE <<>>)
        ELSE IF component_name = "formative" /\ RLt(Rat(7, 10), formative)
        THEN Get(self.detail_suffixes, "formative_high", <<"spelling_very_similar">>)
        ELSE <<>>

\* variant: the detail hint appended to a contextual hint at any score
ComposeHintAlwaysAppends(self, contextual_hint, detail_hint, similarity_score) ==
    IF contextual_hint # <<>>
    THEN (IF detail_hint # <<>>
          THEN contextual_hint \o <<". ">> \o detail_hint
          ELSE contextual_hint)
    ELSE LET base_hint == BaseHintScan(self, SortedDesc(DOMAIN self.hint_thresholds),
                                       similarity_score)
         IN  IF detail_hint # <<>> THEN base_hint \o <<" ">> \o detail_hint
             ELSE base_hint

\* lines 68-79
ComposeHint(self, contextual_hint, detail_hint, similarity_score) ==
    IF contextual_hint # <<>>
    THEN (IF detail_hint # <<>> /\ RLe(RInt(60), similarity_score)
          THEN contextual_hint \o <<". ">> \o detail_hint
          ELSE contextual_hint)
    ELSE LET base_hint == get_base_hint(self, similarity_score)
         IN  IF detail_hint # <<>> THEN base_hint \o <<" ">> \o detail_hint
             ELSE base_hint

\* lines 53-79
generate_hint(self, similarity_score, breakdown, input, relationship_type, relationship_confidence) ==
    IF similarity_score = RInt(100) THEN <<"correct_answer">>
    ELSE ComposeHint(self,
                     generate_contextual_hint(self, input, similarity_score,
                                              relationship_type, relationship_confidence),
                     get_detail_hint(self, breakdown, similarity_score),
                     similarity_score)

\* lines 198-200
generate_category_hint == [category_match |-> FALSE]

\* main.py:49-53: the generator the service constructs
hint_generator == [hint_thresholds      |-> HINT_THRESHOLDS,
                   contextual_templates |-> CONTEXTUAL_HINT_TEMPLATES,
                   detail_suffixes      |-> DETAIL_HINT_SUFFIX]

-----------------------------------------------------------------------------
(* Bounds and input sets *)

MaxAffirm   == 2     \* affirmative templates configured: at most this prefix of NLI_TEMPLATES
MaxContra   == 1     \* contradiction probes configured
MaxTaxonomy == 2     \* taxonomy entries configured

Prefix(seq, n) == SubSeq(seq, 1, IF n <= Len(seq) THEN n ELSE Len(seq))

\* requests
Guesses == {<<"A", " ">>, <<"ga", "!">>}
Answers == {<<"a">>, <<"gan">>}

\* what the embedding capability may give: the cosine of the two vectors
Cosines == {Rat(-1, 1), Rat(3, 5)}

\* what the entailment capability may give
NliLabels == {"entailment", "neutral", "contradiction"}
NliScores == {Rat(2, 5), Rat(4, 5)}

\* a float variable not yet assigned
NoneR == <<0, 0>>
NoResult == [similarity_score |-> NoneR]
NoRelationship == <<"none", NoneR>>
NoResponse == [status |-> 0]

-----------------------------------------------------------------------------
(* The request handler: main.py calculate_similarity, with the calls it makes *)

\* main.py:273-275: any exception becomes HTTP 500
ErrorResponse == [status |-> 500]

\* main.py:213-224
ExactMatchResponse ==
    [status |-> 200, similarity_score |-> RInt(100),
     hint |-> <<"identical_to_the_answer">>, category_match |-> TRUE,
     breakdown |-> [semantic |-> RInt(1), relational |-> RInt(1),
                    formative |-> RInt(1), contradiction |-> RInt(0)]]

Init ==
    /\ pc = "idle"
    /\ templates \in {Prefix(NLI_TEMPLATES, n) : n \in 0..MaxAffirm}
    /\ contradiction_templates \in {Prefix(CONTRADICTION_TEMPLATES, n) : n \in 0..MaxContra}
    /\ relationship_templates \in
          {Prefix(RELATIONSHIP_ANALYSIS_TEMPLATES, n) : n \in 0..MaxTaxonomy}
    /\ config_weights = WEIGHTS
    /\ user_input = <<>>
    /\ answer = <<>>
    /\ semantic_score = NoneR
    /\ entailment_scores = <<>>
    /\ nli_results = <<>>
    /\ relation_score = NoneR
    /\ contradiction_scores = <<>>
    /\ idx = 0
    /\ result = NoResult
    /\ relationship_scores = <<>>
    /\ relationship = NoRelationship
    /\ response = NoResponse
    /\ calls = <<>>
    /\ fz = "unused"
    /\ hz = "unused"
    /\ lz = "unused"

config == <<templates, contradiction_templates, relationship_templates,
           config_weights>>

\* main.py:198-233 and similarity.py:249-263: a request arrives; both texts are
\* normalised and compared, by the handler and again by the calculator.
Receive(u, a) ==
    /\ pc \in {"idle", "done"}
    /\ user_input' = u
    /\ answer' = a
    /\ calls' = <<>>
    /\ semantic_score' = NoneR
    /\ entailment_scores' = <<>>
    /\ nli_results' = <<>>
    /\ relation_score' = NoneR
    /\ contradiction_scores' = <<>>
    /\ idx' = 0
    /\ relationship_scores' = <<>>
    /\ relationship' = NoRelationship
    /\ IF normalize_text(u) = normalize_text(a)
       THEN /\ response' = ExactMatchResponse
            /\ result' = NoResult
            /\ pc' = "done"
       ELSE /\ response' = NoResponse
            /\ IF normalize_text(u) = normalize_text(a)
               THEN result' = ExactMatchResult /\ pc' = "classify"
               ELSE result' = NoResult /\ pc' = "embed"
    /\ UNCHANGED <<config, fz, hz, lz>>

\* main.py:273-275: an exception raised inside the try block
Raise ==
    /\ response' = ErrorResponse
    /\ pc' = "done"

\* similarity.py:64-74: the batched embedding call returns
Embed(cos) ==
    /\ pc = "embed"
    /\ calls' = Append(calls, <<"embed", "batch", "ok">>)
    /\ semantic_score' = RDivInt(RAdd(cos, RInt(1)), 2)
    /\ pc' = "affirm"
    /\ UNCHANGED <<config, user_input, answer, entailment_scores, nli_results, relation_score,
                   contradiction_scores, idx, result, relationship_scores, relationship,
                   response, fz, hz, lz>>

\* similarity.py:64: the embedding call raises
EmbedRaises ==
    /\ pc = "embed"
    /\ calls' = Append(calls, <<"embed", "batch", "raised">>)
    /\ Raise
    /\ UNCHANGED <<config, user_input, answer, semantic_score, entailment_scores, nli_results,
                   relation_score, contradiction_scores, idx, result, relationship_scores,
                   relationship, fz, hz, lz>>

\* variant: a neutral verdict counted at its full confidence
AffirmScoreNeutralInFull(label, score) ==
    IF label = "entailment" \/ label = "neutral" THEN score ELSE RInt(0)

\* similarity.py:104-109
AffirmScore(label, score) ==
    IF label = "entailment" THEN score
    ELSE IF label = "neutral" THEN RMul(score, Rat(5, 10))
    ELSE RInt(0)

\* similarity.py:98-109: one pass of the loop over the affirmative templates
NliAffirm(label, score) ==
    /\ pc = "affirm"
    /\ idx < Len(templates)
    /\ calls' = Append(calls, <<"nli", templates[idx + 1], "ok">>)
    /\ entailment_scores' = Append(entailment_scores, AffirmScore(label, score))
    /\ nli_results' = Append(nli_results, <<label, score>>)
    /\ idx' = idx + 1
    /\ UNCHANGED <<pc, config, user_input, answer, semantic_score, relation_score,
                   contradiction_scores, result, relationship_scores, relationship,
                   response, fz, hz, lz>>

\* variant: the failure caught as in the relationship analysis, the template scoring 0
NliAffirmRaisesScoredZero ==
    /\ pc = "affirm"
    /\ idx < Len(templates)
    /\ calls' = Append(calls, <<"nli", templates[idx + 1], "raised">>)
    /\ entailment_scores' = Append(entailment_scores, RInt(0))
    /\ nli_results' = nli_results
    /\ idx' = idx + 1
    /\ UNCHANGED <<pc, config, user_input, answer, semantic_score, relation_score,
                   contradiction_scores, result, relationship_scores, relationship,
                   response, fz, hz, lz>>

\* similarity.py:101: the classification raises
NliAffirmRaises ==
    /\ pc = "affirm"
    /\ idx < Len(templates)
    /\ calls' = Append(calls, <<"nli", templates[idx + 1], "raised">>)
    /\ Raise
    /\ UNCHANGED <<config, user_input, answer, semantic_score, entailment_scores, nli_results,
                   relation_score, contradiction_scores, idx, result, relationship_scores,
                   relationship, fz, hz, lz>>

\* similarity.py:112
MeanOrZero(scores) ==
    IF scores # <<>> THEN RDivInt(RSum(scores), Len(scores)) ELSE RInt(0)

\* variant: the relational scorer returns after the affirmative loop, the
\* contradiction probes never classified
AffirmDoneSkipsProbes ==
    /\ pc = "affirm"
    /\ idx = Len(templates)
    /\ relation_score' = MeanOrZero(entailment_scores)
    /\ contradiction_scores' = <<>>
    /\ idx' = Len(contradiction_templates)
    /\ pc' = "contra"
    /\ UNCHANGED <<config, user_input, answer, semantic_score, entailment_scores,
                   nli_results, result, relationship_scores, relationship, response,
                   calls, fz, hz, lz>>

\* similarity.py:112-115: the loop over the affirmative templates is over
AffirmDone ==
    /\ pc = "affirm"
    /\ idx = Len(templates)
    /\ relation_score' = MeanOrZero(entailment_scores)
    /\ contradiction_scores' = <<>>
    /\ idx' = 0
    /\ pc' = "contra"
    /\ UNCHANGED <<config, user_input, answer, semantic_score, entailment_scores, nli_results,
                   result, relationship_scores, relationship, response, calls, fz, hz, lz>>

\* similarity.py:116-122: one pass of the loop over the contradiction probes
NliContra(label, score) ==
    /\ pc = "contra"
    /\ idx < Len(contradiction_templates)
    /\ calls' = Append(calls, <<"nli", contradiction_templates[idx + 1], "ok">>)
    /\ contradiction_scores' = IF label = "entailment"
                               THEN Append(contradiction_scores, score)
                               ELSE contradiction_scores
    /\ nli_results' = Append(nli_results, <<label, score>>)
    /\ idx' = idx + 1
    /\ UNCHANGED <<pc, config, user_input, answer, semantic_score, entailment_scores,
                   relation_score, result, relationship_scores, relationship,
                   response, fz, hz, lz>>

\* similarity.py:119: the classification raises
NliContraRaises ==
    /\ pc = "contra"
    /\ idx < Len(contradiction_templates)
    /\ calls' = Append(calls, <<"nli", contradiction_templates[idx + 1], "raised">>)
    /\ Raise
    /\ UNCHANGED <<config, user_input, answer, semantic_score, entailment_scores, nli_results,
                   relation_score, contradiction_scores, idx, result,
                   relationship_scores, relationship, fz, hz, lz>>

\* similarity.py:125
MaxOrZero(scores) == IF scores # <<>> THEN RMaxOf(scores) ELSE RInt(0)

\* similarity.py:125-127 and 270-296: the probes are over; the formative score
\* and the fusion follow without any further call, and the calculator returns
\* its result (its local variables end with it).
ContraDone ==
    /\ pc = "contra"
    /\ idx = Len(contradiction_templates)
    /\ result' = Fuse(semantic_score, relation_score,
                      calculate_formative_similarity(normalize_text(user_input),
                                                     normalize_text(answer)),
                      MaxOrZero(contradiction_scores), config_weights)
    /\ semantic_score' = NoneR
    /\ entailment_scores' = <<>>
    /\ nli_results' = <<>>
    /\ relation_score' = NoneR
    /\ contradiction_scores' = <<>>
    /\ relationship_scores' = <<>>
    /\ idx' = 0
    /\ pc' = "classify"
    /\ UNCHANGED <<config, user_input, answer, relationship, response,
                   calls, fz, hz, lz>>

\* similarity.py:149-159: one taxonomy entry is classified
Classify(label, score) ==
    /\ pc = "classify"
    /\ idx < Len(relationship_templates)
    /\ calls' = Append(calls, <<"nli", relationship_templates[idx + 1][2], "ok">>)
    /\ relationship_scores' =
          Append(relationship_scores,
                 <<relationship_templates[idx + 1][1],
                   IF label = "entailment" THEN score ELSE RInt(0)>>)
    /\ idx' = idx + 1
    /\ UNCHANGED <<pc, config, user_input, answer, semantic_score, entailment_scores, nli_results,
                   relation_score, contradiction_scores, result, relationship,
                   response, fz, hz, lz>>

\* variant: no try/except around the classification, the exception reaches the handler
ClassifyRaisesPropagates ==
    /\ pc = "classify"
    /\ idx < Len(relationship_templates)
    /\ calls' = Append(calls, <<"nli", relationship_templates[idx + 1][2], "raised">>)
    /\ response' = [status |-> 500]
    /\ pc' = "done"
    /\ UNCHANGED <<config, user_input, answer, semantic_score, entailment_scores, nli_results,
                   relation_score, contradiction_scores, idx, result,
                   relationship_scores, relationship, fz, hz, lz>>

\* similarity.py:161-163: the classification raises and the entry scores 0
ClassifyRaises ==
    /\ pc = "classify"
    /\ idx < Len(relationship_templates)
    /\ calls' = Append(calls, <<"nli", relationship_templates[idx + 1][2], "raised">>)
    /\ relationship_scores' =
          Append(relationship_scores, <<relationship_templates[idx + 1][1], RInt(0)>>)
    /\ idx' = idx + 1
    /\ UNCHANGED <<pc, config, user_input, answer, semantic_score, entailment_scores, nli_results,
                   relation_score, contradiction_scores, result, relationship,
                   response, fz, hz, lz>>

\* similarity.py:166-170
BestRelationship(scores) ==
    IF scores # <<>> THEN MaxByValue(Tail(scores), Head(scores))
    ELSE <<"general", RInt(0)>>

\* main.py:245-271
SuccessResponse(res, rel, input) ==
    [status |-> 200,
     similarity_score |-> res.similarity_score,
     hint |-> generate_hint(hint_generator, res.similarity_score, res.breakdown,
                            input, rel[1], rel[2]),
     category_match |-> generate_category_hint.category_match,
     breakdown |-> res.breakdown]

\* similarity.py:166-170 and main.py:242-271: the taxonomy is exhausted; the
\* best relationship is returned, the hint is generated and the handler answers.
\* relationship_scores is kept as the record of what each entry scored.
ClassifyDone ==
    /\ pc = "classify"
    /\ idx = Len(relationship_templates)
    /\ relationship' = BestRelationship(relationship_scores)
    /\ response' = SuccessResponse(result, BestRelationship(relationship_scores),
                                   user_input)
    /\ pc' = "done"
    /\ UNCHANGED <<config, user_input, answer, semantic_score, entailment_scores, nli_results,
                   relation_score, contradiction_scores, idx, result,
                   relationship_scores, calls, fz, hz, lz>>

Next ==
    \/ \E u \in Guesses, a \in Answers : Receive(u, a)
    \/ \E cos \in Cosines : Embed(cos)
    \/ EmbedRaises
    \/ \E l \in NliLabels, s \in NliScores : NliAffirm(l, s)
    \/ NliAffirmRaises
    \/ AffirmDone
    \/ \E l \in NliLabels, s \in NliScores : NliContra(l, s)
    \/ NliContraRaises
    \/ ContraDone
    \/ \E l \in NliLabels, s \in NliScores : Classify(l, s)
    \/ ClassifyRaises
    \/ ClassifyDone

Spec == Init /\ [][Next]_vars

-----------------------------------------------------------------------------
(* Service startup: main.py lifespan, followed by the request handler *)

\* what config.WEIGHTS may hold when the service starts: the shipped triple,
\* and a triple that sums to 1.5
WeightConfigs ==
    {WEIGHTS,
     [semantic |-> Rat(1, 2), relational |-> Rat(1, 2), formative |-> Rat(1, 2)]}

InitStartup ==
    /\ pc = "starting"
    /\ templates \in {Prefix(NLI_TEMPLATES, n) : n \in 0..MaxAffirm}
    /\ contradiction_templates \in {Prefix(CONTRADICTION_TEMPLATES, n) : n \in 0..MaxContra}
    /\ relationship_templates \in
          {Prefix(RELATIONSHIP_ANALYSIS_TEMPLATES, n) : n \in 0..MaxTaxonomy}
    /\ config_weights \in WeightConfigs
    /\ user_input = <<>>
    /\ answer = <<>>
    /\ semantic_score = NoneR
    /\ entailment_scores = <<>>
    /\ nli_results = <<>>
    /\ relation_score = NoneR
    /\ contradiction_scores = <<>>
    /\ idx = 0
    /\ result = NoResult
    /\ relationship_scores = <<>>
    /\ relationship = NoRelationship
    /\ response = NoResponse
    /\ calls = <<>>
    /\ fz = "unused"
    /\ hz = "unused"
    /\ lz = "unused"

\* main.py:43-56: the calculator and the hint generator are constructed
LoadModels ==
    /\ pc = "starting"
    /\ pc' = "warmup"
    /\ UNCHANGED <<config, user_input, answer, semantic_score, entailment_scores,
                   nli_results, relation_score, contradiction_scores, idx, result,
                   relationship_scores, relationship, response, calls, fz, hz, lz>>

\* main.py:91-93: a constructor raises; the exception is raised again and the
\* application does not start
LoadModelsRaises ==
    /\ pc = "starting"
    /\ pc' = "failed"
    /\ UNCHANGED <<config, user_input, answer, semantic_score, entailment_scores,
                   nli_results, relation_score, contradiction_scores, idx, result,
                   relationship_scores, relationship, response, calls, fz, hz, lz>>

\* main.py:62-89: the warm-up computes one similarity and one relationship
\* with config.WEIGHTS and the configured templates; its results are dropped
\* and an exception in it is logged and ignored.  The application then yields
\* and serves requests.
Warmup(outcome) ==
    /\ pc = "warmup"
    /\ outcome \in {"ok", "raised"}
    /\ pc' = "idle"
    /\ UNCHANGED <<config, user_input, answer, semantic_score, entailment_scores,
                   nli_results, relation_score, contradiction_scores, idx, result,
                   relationship_scores, relationship, response, calls, fz, hz, lz>>

NextStartup ==
    \/ LoadModels
    \/ LoadModelsRaises
    \/ \E outcome \in {"ok", "raised"} : Warmup(outcome)
    \/ Next

SpecStartup == InitStartup /\ [][NextStartup]_vars

-----------------------------------------------------------------------------
(* Score fusion as a function: calculate_combined_similarity with the three  *)
(* scorers mocked, applied to one pair of texts and to two contradiction     *)
(* values.                                                                   *)

FusionGrid == {Rat(0, 1), Rat(1, 10), Rat(1, 5), Rat(1, 3), Rat(1, 2), Rat(4, 5), Rat(1, 1)}

FusionTexts == {<< <<"a">>, <<"A", " ">> >>, << <<"a">>, <<"b">> >>}

\* similarity.py:249-296 with semantic, relational, formative and contradiction given
CombinedFromScores(input_text, answer_text, semantic, relational, formative, contradiction, weights) ==
    IF normalize_text(input_text) = normalize_text(answer_text)
    THEN ExactMatchResult
    ELSE Fuse(semantic, relational, formative, contradiction, weights)

HandlerOff ==
    /\ pc = "off"
    /\ templates = <<>>
    /\ contradiction_templates = <<>>
    /\ relationship_templates = <<>>
    /\ config_weights = WEIGHTS
    /\ user_input = <<>>
    /\ answer = <<>>
    /\ semantic_score = NoneR
    /\ entailment_scores = <<>>
    /\ nli_results = <<>>
    /\ relation_score = NoneR
    /\ contradiction_scores = <<>>
    /\ idx = 0
    /\ result = NoResult
    /\ relationship_scores = <<>>
    /\ relationship = NoRelationship
    /\ response = NoResponse
    /\ calls = <<>>

InitFusion ==
    /\ HandlerOff
    /\ hz = "unused"
    /\ lz = "unused"
    /\ fz \in [input_text : {t[1] : t \in FusionTexts},
               answer : {t[2] : t \in FusionTexts},
               semantic : FusionGrid, relational : FusionGrid,
               formative : FusionGrid,
               contradiction : FusionGrid, contradiction2 : FusionGrid,
               out : {NoResult}, out2 : {NoResult}]
    /\ <<fz.input_text, fz.answer>> \in FusionTexts

FuseCall ==
    /\ fz.out = NoResult
    /\ fz' = [fz EXCEPT
                !.out  = CombinedFromScores(fz.input_text, fz.answer, fz.semantic,
                                            fz.relational, fz.formative,
                                            fz.contradiction, WEIGHTS),
                !.out2 = CombinedFromScores(fz.input_text, fz.answer, fz.semantic,
                                            fz.relational, fz.formative,
                                            fz.contradiction2, WEIGHTS)]
    /\ UNCHANGED <<handlerVars, hz, lz>>

NextFusion == FuseCall

SpecFusion == InitFusion /\ [][NextFusion]_vars

-----------------------------------------------------------------------------
(* The hint selector as a function: generate_hint applied to drawn inputs *)

\* generators: the one the service constructs, and one built with sparse tables
\* (a type without a high template, a type with a low template only, no suffixes)
Generator(gen) ==
    IF gen = "deployed" THEN hint_generator
    ELSE [hint_thresholds |-> HINT_THRESHOLDS,
          contextual_templates |->
              [ty \in {"situation", "opposite"} |->
                  IF ty = "situation"
                  THEN [lv \in {"medium", "low"} |-> <<"{input}", "_ctx_" \o ty \o "_" \o lv>>]
                  ELSE [lv \in {"low"} |-> <<"{input}", "_ctx_" \o ty \o "_" \o lv>>]],
          detail_suffixes |-> <<>>]

HintScores == {RInt(0), Rat(1499, 100), RInt(15), Rat(1999, 100), RInt(20),
               Rat(2999, 100), RInt(30), Rat(4999, 100), RInt(50), RInt(55),
               RInt(59), Rat(5999, 100), RInt(60), RInt(70), RInt(95), RInt(100)}

HintSemantic      == {Rat(1, 5), Rat(3, 10), Rat(13, 20), Rat(4, 5)}
HintRelational    == {Rat(1, 5), Rat(3, 10), Rat(13, 20), Rat(4, 5)}
HintFormative     == {Rat(1, 2), Rat(7, 10), Rat(4, 5)}
HintContradiction == {RInt(0), Rat(3, 5), Rat(7, 10)}
HintTypes         == {"situation", "opposite", "general", "None"}
HintConfidences   == {Rat(1, 5), Rat(3, 10), Rat(1, 2), Rat(7, 10)}

InitHint ==
    /\ HandlerOff
    /\ fz = "unused"
    /\ lz = "unused"
    /\ hz \in [gen : {"deployed", "sparse"},
               similarity_score : HintScores,
               breakdown : [semantic : HintSemantic, relational : HintRelational,
                            formative : HintFormative,
                            contradiction : HintContradiction],
               user_input : {<<"ga", "!">>},
               relationship_type : HintTypes,
               relationship_confidence : HintConfidences,
               contextual_hint : {<<>>}, detail_hint : {<<>>},
               hint : {<<>>}, returned : {FALSE}]

\* hint.py:53-79: one call of generate_hint; contextual_hint and detail_hint are
\* its local variables, left unset by the early return for a score of 100
HintCall ==
    /\ ~hz.returned
    /\ LET self == Generator(hz.gen)
           contextual == generate_contextual_hint(self, hz.user_input,
                             hz.similarity_score, hz.relationship_type,
                             hz.relationship_confidence)
           detail == get_detail_hint(self, hz.breakdown, hz.similarity_score)
       IN  hz' = [hz EXCEPT
                    !.contextual_hint = IF hz.similarity_score = RInt(100)
                                        THEN <<>> ELSE contextual,
                    !.detail_hint = IF hz.similarity_score = RInt(100)
                                    THEN <<>> ELSE detail,
                    !.hint = generate_hint(self, hz.similarity_score, hz.breakdown,
                                           hz.user_input, hz.relationship_type,
                                           hz.relationship_confidence),
                    !.returned = TRUE]
    /\ UNCHANGED <<handlerVars, fz, lz>>

NextHint == HintCall

SpecHint == InitHint /\ [][NextHint]_vars

-----------------------------------------------------------------------------
(* The formative scorer as a function: calculate_formative_similarity applied *)
(* to a pair of texts and to the same pair swapped.                           *)

MaxFormLen == 2     \* length of the drawn texts, in characters

FormChars == {"a", "b", "ga"}

\* every text of at most MaxFormLen characters, and the pair 'abc', 'abd'
FormTexts ==
    UNION {[1..n -> FormChars] : n \in 0..MaxFormLen}
        \cup {<<"a", "b", "c">>, <<"a", "b", "d">>}

InitFormative ==
    /\ HandlerOff
    /\ fz = "unused"
    /\ hz = "unused"
    /\ lz \in [input_text : FormTexts, answer : FormTexts,
               input_jamo : {<<>>}, answer_jamo : {<<>>},
               out : {NoneR}, out_swapped : {NoneR}, returned : {FALSE}]

\* similarity.py:183-197: one call, and the call with the arguments exchanged;
\* input_jamo and answer_jamo are the locals of the first call
FormativeCall ==
    /\ ~lz.returned
    /\ lz' = [lz EXCEPT
                !.input_jamo = h2j(lz.input_text),
                !.answer_jamo = h2j(lz.answer),
                !.out = calculate_formative_similarity(lz.input_text, lz.answer),
                !.out_swapped = calculate_formative_similarity(lz.answer, lz.input_text),
                !.returned = TRUE]
    /\ UNCHANGED <<handlerVars, fz, hz>>

NextFormative == FormativeCall

SpecFormative == InitFormative /\ [][NextFormative]_vars

-----------------------------------------------------------------------------
(* Properties *)

Range(q) == {q[k] : k \in 1..Len(q)}

\* the request in hand takes the general path
GeneralPath == normalize_text(user_input) # normalize_text(answer)

\* the handler has answered the request in hand with a result
Answered == pc = "done" /\ response.status = 200

TaxonomyTemplates == {RELATIONSHIP_ANALYSIS_TEMPLATES[k][2] :
                        k \in 1..Len(RELATIONSHIP_ANALYSIS_TEMPLATES)}

ScoringTemplates == Range(NLI_TEMPLATES) \cup Range(CONTRADICTION_TEMPLATES)

\* positions in the call log of failed classifications of taxonomy entries
FailedTaxonomyCalls ==
    {p \in 1..Len(calls) : calls[p][3] = "raised" /\ calls[p][2] \in TaxonomyTemplates}

\* positions in the call log of failed embedding or scoring calls
FailedScoringCalls ==
    {p \in 1..Len(calls) :
        calls[p][3] = "raised" /\ (calls[p][1] = "embed" \/ calls[p][2] \in ScoringTemplates)}

\* C1: a request whose two texts normalise to the same text is answered at once
\* with score 100, breakdown 1, 1, 1, 0 and the fixed "identical" hint, and no
\* capability is called for it; "A " against "a" is such a request.
ExactMatchBypass ==
    /\ (pc \notin {"idle", "off"} /\ normalize_text(user_input) = normalize_text(answer))
        => /\ pc = "done"
           /\ calls = <<>>
           /\ response.status = 200
           /\ response.similarity_score = <<100, 1>>
           /\ response.breakdown = [semantic |-> <<1, 1>>, relational |-> <<1, 1>>,
                                   formative |-> <<1, 1>>, contradiction |-> <<0, 1>>]
           /\ response.hint = <<"identical_to_the_answer">>
           /\ result = NoResult
           /\ relationship = NoRelationship
    /\ (user_input = <<"A", " ">> /\ answer = <<"a">>)
        => (pc = "done" /\ calls = <<>> /\ response.similarity_score = <<100, 1>>)

ExactMatchBypassWitness ==
    /\ pc = "done"
    /\ user_input = <<"A", " ">>
    /\ answer = <<"a">>
    /\ calls = <<>>
    /\ response.status = 200
    /\ Len(templates) > 0

\* C2: the composite score returned by the fusion lies in [0, 100], on the
\* exact-match branch and on the general branch.
CompositeBounded ==
    fz.out # NoResult
        => /\ RLe(RInt(0), fz.out.similarity_score)
           /\ RLe(fz.out.similarity_score, RInt(100))
           /\ RLe(RInt(0), fz.out2.similarity_score)
           /\ RLe(fz.out2.similarity_score, RInt(100))

\* the weighted sum less the penalty is negative and is clipped to 0
CompositeBoundedWitness ==
    /\ fz.out # NoResult
    /\ normalize_text(fz.input_text) # normalize_text(fz.answer)
    /\ fz.semantic = Rat(1, 10)
    /\ fz.relational = RInt(0)
    /\ fz.formative = RInt(0)
    /\ fz.contradiction = Rat(4, 5)
    /\ fz.out.similarity_score = RInt(0)

\* C3: on the general path the score is round(clamp(s*0.50 + r*0.35 + f*0.15
\* - 0.15*c, 0, 1) * 100, 2); (0.8, 0.2, 0.1) gives 48.5 with c = 0 and 36.5
\* with c = 0.8; the breakdown reports c itself, rounded to 4 places.
FusionFormula ==
    (fz.out # NoResult /\ normalize_text(fz.input_text) # normalize_text(fz.answer))
        => LET raw == RSub(RAdd(RAdd(RMul(fz.semantic, Rat(1, 2)),
                                     RMul(fz.relational, Rat(7, 20))),
                                RMul(fz.formative, Rat(3, 20))),
                           RMul(fz.contradiction, Rat(3, 20)))
               clamped == IF RLt(raw, RInt(0)) THEN RInt(0)
                          ELSE IF RLt(RInt(1), raw) THEN RInt(1) ELSE raw
           IN  /\ fz.out.similarity_score = Round(RMul(clamped, RInt(100)), 2)
               /\ fz.out.breakdown.contradiction = Round(fz.contradiction, 4)
               /\ (/\ fz.semantic = Rat(4, 5)
                   /\ fz.relational = Rat(1, 5)
                   /\ fz.formative = Rat(1, 10))
                   => /\ fz.contradiction = RInt(0)
                          => fz.out.similarity_score = <<97, 2>>
                      /\ fz.contradiction = Rat(4, 5)
                          => /\ fz.out.similarity_score = <<73, 2>>
                             /\ fz.out.breakdown.contradiction = <<4, 5>>

FusionFormulaWitness ==
    /\ fz.out # NoResult
    /\ normalize_text(fz.input_text) # normalize_text(fz.answer)
    /\ fz.semantic = Rat(4, 5)
    /\ fz.relational = Rat(1, 5)
    /\ fz.formative = Rat(1, 10)
    /\ fz.contradiction = Rat(4, 5)
    /\ fz.contradiction2 = RInt(0)
    /\ fz.out.similarity_score = <<73, 2>>
    /\ fz.out2.similarity_score = <<97, 2>>

\* C4: with the other three components fixed, a contradiction value at least
\* as large gives a composite score at most as large.
ContradictionMonotone ==
    (fz.out # NoResult /\ RLe(fz.contradiction, fz.contradiction2))
        => RLe(fz.out2.similarity_score, fz.out.similarity_score)

\* a strictly larger contradiction with the lower clip reached
ContradictionMonotoneWitness ==
    /\ fz.out # NoResult
    /\ normalize_text(fz.input_text) # normalize_text(fz.answer)
    /\ RLt(fz.contradiction, fz.contradiction2)
    /\ fz.contradiction = Rat(1, 10)
    /\ RLt(RInt(0), fz.out.similarity_score)
    /\ fz.out2.similarity_score = RInt(0)

\* C5: when every taxonomy entry scored 0, the relationship returned is the
\* fallback type "general" with confidence 0.
FallbackWhenAllZero ==
    (/\ Answered
     /\ GeneralPath
     /\ \A k \in 1..Len(relationship_scores) : relationship_scores[k][2] = RInt(0))
        => relationship = <<"general", <<0, 1>> >>

\* C6: when some taxonomy entry scored above 0, the relationship returned is
\* the entry of maximum score, the first such in the taxonomy's order, with
\* that score as confidence.
MaxScoreFirstInOrder ==
    (/\ Answered
     /\ GeneralPath
     /\ \E k \in 1..Len(relationship_scores) : RLt(RInt(0), relationship_scores[k][2]))
        => /\ Len(relationship_scores) = Len(relationship_templates)
           /\ \A k \in 1..Len(relationship_scores) :
                 relationship_scores[k][1] = relationship_templates[k][1]
           /\ \E k \in 1..Len(relationship_scores) :
                 /\ relationship = relationship_scores[k]
                 /\ \A j \in 1..Len(relationship_scores) :
                       RLe(relationship_scores[j][2], relationship_scores[k][2])
                 /\ \A j \in 1..(k - 1) :
                       RLt(relationship_scores[j][2], relationship_scores[k][2])

\* two entries share the maximum and the first is returned
MaxScoreFirstInOrderWitness ==
    /\ Answered
    /\ GeneralPath
    /\ Len(relationship_scores) = 2
    /\ relationship_scores[1][2] = Rat(4, 5)
    /\ relationship_scores[2][2] = Rat(4, 5)
    /\ relationship = <<"situation", Rat(4, 5)>>

\* C7: a classification of a taxonomy entry that fails gives that entry the
\* score 0 and nothing else: the handler goes on, every entry of the taxonomy
\* is classified, and the request is answered with a relationship.
ClassificationFailureAbsorbed ==
    /\ \A p \in FailedTaxonomyCalls :
          /\ pc \in {"classify", "done"}
          /\ response.status # 500
          /\ \E k \in 1..Len(relationship_scores) :
                /\ relationship_templates[k][2] = calls[p][2]
                /\ relationship_scores[k] = <<relationship_templates[k][1], RInt(0)>>
    /\ (pc = "done" /\ FailedTaxonomyCalls # {})
          => /\ response.status = 200
             /\ relationship # NoRelationship
             /\ \A k \in 1..Len(relationship_templates) :
                   \E p \in 1..Len(calls) : calls[p][2] = relationship_templates[k][2]

\* the first entry's classification failed, the second was entailed and won
ClassificationFailureAbsorbedWitness ==
    /\ Answered
    /\ Len(relationship_templates) = 2
    /\ \E p \in FailedTaxonomyCalls : calls[p][2] = relationship_templates[1][2]
    /\ calls[Len(calls)] = <<"nli", relationship_templates[2][2], "ok">>
    /\ relationship = <<relationship_templates[2][1], Rat(4, 5)>>

\* C8: a failed embedding call or a failed scoring classification is the last
\* call made for the request and was made once; the calculator returns no
\* result, no relationship is classified, no hint is selected, and the
\* handler's answer is the error.
ScoringFailurePropagates ==
    \A p \in FailedScoringCalls :
        /\ p = Len(calls)
        /\ \A q \in 1..(p - 1) : <<calls[q][1], calls[q][2]>> # <<calls[p][1], calls[p][2]>>
        /\ pc = "done"
        /\ response = [status |-> 500]
        /\ result = NoResult
        /\ relationship = NoRelationship
        /\ relationship_scores = <<>>

\* the embedding and an affirmative template succeeded, the first probe failed
ScoringFailurePropagatesWitness ==
    /\ pc = "done"
    /\ Len(calls) = 3
    /\ calls[1] = <<"embed", "batch", "ok">>
    /\ calls[3] = <<"nli", "opposite_meaning", "raised">>
    /\ response = [status |-> 500]

\* the greatest configured threshold that is <= score
GreatestThreshold(score) ==
    CHOOSE t \in DOMAIN HINT_THRESHOLDS :
        /\ RLe(RInt(t), score)
        /\ \A u \in DOMAIN HINT_THRESHOLDS : RLe(RInt(u), score) => u <= t

\* C9: below score 100, with confidence under 0.3, or score under 15, or no
\* template set for the relation type, there is no contextual hint and the
\* hint is the base hint of the greatest threshold <= score, then a space and
\* the detail hint if there is one; confidence 0.2 at score 70 gives the base
\* hint of threshold 60.
FallsBackToBaseHint ==
    /\ (/\ hz.returned
        /\ RLt(hz.similarity_score, RInt(100))
        /\ \/ RLt(hz.relationship_confidence, Rat(3, 10))
           \/ RLt(hz.similarity_score, RInt(15))
           \/ hz.relationship_type \notin DOMAIN Generator(hz.gen).contextual_templates)
        => /\ hz.contextual_hint = <<>>
           /\ hz.hint = HINT_THRESHOLDS[GreatestThreshold(hz.similarity_score)]
                        \o (IF hz.detail_hint # <<>>
                            THEN <<" ">> \o hz.detail_hint ELSE <<>>)
    /\ (/\ hz.returned
        /\ hz.relationship_confidence = Rat(1, 5)
        /\ hz.similarity_score = RInt(70))
        => SubSeq(hz.hint, 1, 1) = <<"similar_direction">>

FallsBackToBaseHintWitness ==
    /\ hz.returned
    /\ hz.relationship_confidence = Rat(1, 5)
    /\ hz.similarity_score = RInt(70)
    /\ hz.relationship_type = "situation"
    /\ hz.gen = "deployed"
    /\ hz.hint = <<"similar_direction", " ", "but_not_the_opposite_meaning">>

\* C10: with a contextual hint, the hint is "{contextual}. {detail}" exactly
\* when there is a detail hint and score >= 60, and the contextual hint alone
\* otherwise; the opposite-meaning detail hint of contradiction 0.7 is dropped
\* at scores 55 and 59 and appended at score 60.
DetailAppendedOnlyFrom60 ==
    (/\ hz.returned
     /\ hz.similarity_score # RInt(100)
     /\ hz.contextual_hint # <<>>)
        => /\ IF hz.detail_hint # <<>> /\ RLe(RInt(60), hz.similarity_score)
              THEN hz.hint = hz.contextual_hint \o <<". ">> \o hz.detail_hint
              ELSE hz.hint = hz.contextual_hint
           /\ hz.breakdown.contradiction = Rat(7, 10)
                 => /\ hz.detail_hint = <<"but_not_the_opposite_meaning">>
                    /\ hz.similarity_score \in {RInt(55), RInt(59)}
                          => hz.hint = hz.contextual_hint
                    /\ hz.similarity_score = RInt(60)
                          => hz.hint = hz.contextual_hint
                                       \o <<". ", "but_not_the_opposite_meaning">>

DetailAppendedOnlyFrom60Witness ==
    /\ hz.returned
    /\ hz.similarity_score = RInt(55)
    /\ hz.breakdown.contradiction = Rat(7, 10)
    /\ hz.contextual_hint = <<"ga", "!", "_ctx_opposite_medium">>
    /\ hz.detail_hint = <<"but_not_the_opposite_meaning">>
    /\ hz.hint = hz.contextual_hint


\* the least of a non-empty set of numbers
Least(S) == CHOOSE m \in S : \A x \in S : m <= x

\* the edit distance by its recurrence on the first units of the two sequences
RECURSIVE EditDistance(_, _)
EditDistance(a, b) ==
    IF a = <<>> THEN Len(b)
    ELSE IF b = <<>> THEN Len(a)
    ELSE IF Head(a) = Head(b) THEN EditDistance(Tail(a), Tail(b))
    ELSE 1 + Least({EditDistance(Tail(a), b), EditDistance(a, Tail(b)),
                    EditDistance(Tail(a), Tail(b))})

\* C11: the formative score is 1 when both decomposed sequences are empty and
\* otherwise max(0, 1 - d / max(len a, len b)) with d the edit distance of the
\* two decomposed sequences; it lies in [0, 1], it is the same with the two
\* texts exchanged, and 'abc' against 'abd' scores 1 - 1/3.
FormativeIsNormalisedEditDistance ==
    lz.returned =>
        LET a == lz.input_jamo
            b == lz.answer_jamo
            m == IF Len(a) >= Len(b) THEN Len(a) ELSE Len(b)
        IN  /\ m = 0 => lz.out = RInt(1)
            /\ m > 0 => lz.out = RMax(RInt(0), RSub(RInt(1), Rat(EditDistance(a, b), m)))
            /\ RLe(RInt(0), lz.out) /\ RLe(lz.out, RInt(1))
            /\ lz.out = lz.out_swapped
            /\ (lz.input_text = <<"a", "b", "c">> /\ lz.answer = <<"a", "b", "d">>)
                   => lz.out = <<2, 3>>

FormativeIsNormalisedEditDistanceWitness ==
    /\ lz.returned
    /\ lz.input_text = <<"ga", "b">>
    /\ lz.answer = <<"ga", "a">>
    /\ lz.input_jamo = <<"j_g", "j_a", "b">>
    /\ lz.answer_jamo = <<"j_g", "j_a", "a">>
    /\ lz.out = <<2, 3>>

\* what one affirmative template contributes, by the verdict on it
AffirmContribution(r) ==
    CASE r[1] = "entailment"    -> r[2]
      [] r[1] = "neutral"       -> Rat(r[2][1], 2 * r[2][2])
      [] r[1] = "contradiction" -> RInt(0)

\* the greatest of a non-empty set of rationals
Greatest(S) == CHOOSE m \in S : \A x \in S : RLe(x, m)

\* the confidences of the probes the classifier entailed, the probes being the
\* verdicts after the first n
EntailedProbes(verdicts, n) ==
    {verdicts[k][2] : k \in {j \in (n + 1)..Len(verdicts) : verdicts[j][1] = "entailment"}}

Serving == pc \notin {"starting", "warmup", "failed", "off"}

\* C13: the configured weights sum to 1.0, and the service never serves
\* requests with weights that do not sum to 1.0.
ServesOnlyWithUnitWeights ==
    Serving =>
        RAdd(RAdd(config_weights.semantic, config_weights.relational),
             config_weights.formative) = RInt(1)

\* generate_hint has returned after making both attempts
BothAttemptsMade == hz.returned /\ hz.similarity_score # RInt(100)

\* C14: with contradiction above 0.6 the detail hint is the fixed
\* opposite-meaning suffix whatever the other signals and the score are, a
\* score below 20 included; with contradiction at most 0.6 and a score below
\* 20 the detail hint is empty.
OppositeSuffixBeforeLowScore ==
    BothAttemptsMade =>
        /\ RLt(Rat(3, 5), hz.breakdown.contradiction)
               => hz.detail_hint = <<"but_not_the_opposite_meaning">>
        /\ (RLe(hz.breakdown.contradiction, Rat(3, 5)) /\ RLt(hz.similarity_score, RInt(20)))
               => hz.detail_hint = <<>>

OppositeSuffixBeforeLowScoreWitness ==
    /\ hz.returned
    /\ hz.similarity_score = RInt(0)
    /\ hz.breakdown.contradiction = Rat(7, 10)
    /\ hz.detail_hint = <<"but_not_the_opposite_meaning">>

\* the suffix the generator holds under a key, or the built-in one
SuffixOf(gen, key, builtin) == IF gen = "deployed" THEN <<"cfg_" \o key>> ELSE builtin

\* C15: with contradiction at most 0.6 and a score of at least 20, the detail
\* hint is decided by the greatest of semantic, relational, formative (the
\* earlier one on a tie): the semantic suffix iff that is semantic with
\* semantic > 0.6 and relational < 0.3, the relational suffix iff that is
\* relational with relational > 0.6 and semantic < 0.3, the formative suffix
\* iff that is formative with formative > 0.7, and empty otherwise.
DetailFromGreatestSignalOnly ==
    (BothAttemptsMade /\ RLe(hz.breakdown.contradiction, Rat(3, 5))
                      /\ RLe(RInt(20), hz.similarity_score)) =>
        LET s == hz.breakdown.semantic
            r == hz.breakdown.relational
            f == hz.breakdown.formative
            semanticCase   == RLe(r, s) /\ RLe(f, s) /\ RLt(Rat(3, 5), s) /\ RLt(r, Rat(3, 10))
            relationalCase == RLt(s, r) /\ RLe(f, r) /\ RLt(Rat(3, 5), r) /\ RLt(s, Rat(3, 10))
            formativeCase  == RLt(s, f) /\ RLt(r, f) /\ RLt(Rat(7, 10), f)
        IN  /\ hz.detail_hint = SuffixOf(hz.gen, "semantic_high", <<"semantically_close">>)
                   <=> semanticCase
            /\ hz.detail_hint = SuffixOf(hz.gen, "relational_high", <<"context_matches">>)
                   <=> relationalCase
            /\ hz.detail_hint = SuffixOf(hz.gen, "formative_high", <<"spelling_very_similar">>)
                   <=> formativeCase
            /\ hz.detail_hint = <<>>
                   <=> ~(semanticCase \/ relationalCase \/ formativeCase)

\* semantic and formative tie at 0.8: semantic decides
DetailFromGreatestSignalOnlyWitness ==
    /\ hz.returned
    /\ hz.gen = "deployed"
    /\ hz.similarity_score = RInt(55)
    /\ hz.breakdown = [semantic |-> Rat(4, 5), relational |-> Rat(1, 5),
                       formative |-> Rat(4, 5), contradiction |-> RInt(0)]
    /\ hz.detail_hint = <<"cfg_semantic_high">>

\* the contextual attempt of the call is not skipped (hint.py:100-111)
ContextualNotSkipped ==
    /\ hz.relationship_type \notin {"None", ""}
    /\ RLe(Rat(3, 10), hz.relationship_confidence)
    /\ RLe(RInt(15), hz.similarity_score)
    /\ hz.relationship_type \in DOMAIN Generator(hz.gen).contextual_templates

\* C16: when the contextual attempt is not skipped, the level is high iff
\* confidence >= 0.7 and score >= 50, otherwise medium iff confidence >= 0.5 or
\* score >= 30, otherwise low (so low only for confidence in [0.3, 0.5) and a
\* score in [15, 30)); the hint is the template of that level, the medium
\* template when the level has none, and nothing when both are absent.
LevelChoosesTemplate ==
    (BothAttemptsMade /\ ContextualNotSkipped) =>
        LET conf  == hz.relationship_confidence
            score == hz.similarity_score
            ty    == hz.relationship_type
            level == CASE RLe(Rat(7, 10), conf) /\ RLe(RInt(50), score) -> "high"
                       [] ~(RLe(Rat(7, 10), conf) /\ RLe(RInt(50), score))
                          /\ (RLe(Rat(1, 2), conf) \/ RLe(RInt(30), score)) -> "medium"
                       [] OTHER -> "low"
            present == DOMAIN Generator(hz.gen).contextual_templates[ty]
            rendered(lv) == hz.user_input \o <<"_ctx_" \o ty \o "_" \o lv>>
        IN  /\ level = "low" => /\ RLt(conf, Rat(1, 2))
                                /\ RLe(RInt(15), score) /\ RLt(score, RInt(30))
            /\ hz.contextual_hint =
                  IF level \in present THEN rendered(level)
                  ELSE IF "medium" \in present THEN rendered("medium")
                  ELSE <<>>

\* level high for a type without a high template: the medium template is used
LevelChoosesTemplateWitness ==
    /\ hz.returned
    /\ hz.gen = "sparse"
    /\ hz.relationship_type = "situation"
    /\ hz.relationship_confidence = Rat(7, 10)
    /\ hz.similarity_score = RInt(50)
    /\ hz.contextual_hint = <<"ga", "!", "_ctx_situation_medium">>

\* the calls a general-path request makes when none fails, in order, each as
\* <<capability, what is classified>>
ExpectedCalls ==
    << <<"embed", "batch">> >>
        \o [k \in 1..Len(templates) |-> <<"nli", templates[k]>>]
        \o [k \in 1..Len(contradiction_templates) |-> <<"nli", contradiction_templates[k]>>]
        \o [k \in 1..Len(relationship_templates) |-> <<"nli", relationship_templates[k][2]>>]

\* the calls made so far, without their outcomes
CallsMade == [p \in 1..Len(calls) |-> <<calls[p][1], calls[p][2]>>]

\* C17: a general-path request that completes without failure has made exactly
\* one batched embedding call, then one entailment call per affirmative
\* template, then one per contradiction probe, then one per taxonomy entry, in
\* that order; the hint exists only once all of them have returned, and no
\* taxonomy entry is classified before the score fusion has completed.
CallsInFixedOrder ==
    GeneralPath =>
        /\ Len(calls) <= Len(ExpectedCalls)
        /\ CallsMade = SubSeq(ExpectedCalls, 1, Len(calls))
        /\ Answered =>
              /\ CallsMade = ExpectedCalls
              /\ \A p \in 1..(1 + Len(templates) + Len(contradiction_templates)) :
                     calls[p][3] = "ok"
        /\ (pc \notin {"idle", "done"}) => response = NoResponse
        /\ (\E p \in 1..Len(calls) :
                p > 1 + Len(templates) + Len(contradiction_templates))
              => result # NoResult

CallsInFixedOrderWitness ==
    /\ Answered
    /\ GeneralPath
    /\ Len(templates) = 2
    /\ Len(contradiction_templates) = 1
    /\ Len(relationship_templates) = 2
    /\ Len(calls) = 6
    /\ calls[6] = <<"nli", "can_cause", "ok">>

=============================================================================
